---- MODULE Spec2Model ----
(***************************************************************************)
(* Model of analyze-cron.py: the cron discovery and aggregation pipeline.  *)
(*                                                                         *)
(* A behaviour is one run of the script (one invocation of main()) on a    *)
(* data directory that earlier runs have left.  The state is the data      *)
(* directory on disk, the local variables of the run, the position of the  *)
(* run in the script, and the quota state of the GitHub service together   *)
(* with the clock.                                                         *)
(***************************************************************************)
EXTENDS Integers, Sequences, FiniteSets, TLC

VARIABLES
    pc,          \* position of the current run in the script
    argv,        \* the CLI argument of the current run (NoArg: none)
    store,       \* data directory on disk: directory -> artifact -> content
    crons,       \* run_analysis / run_username_analysis: the corpus `crons`
    found,       \* download_repos: the local lookup `crons`
    total,       \* code_search.totalCount: the length of the result list
    idx,         \* download_repos: number of candidates taken from the iterator
    filename,    \* download_repos: the current candidate
    content,     \* download_repos: outcome of read_yaml for the current candidate
    stats,       \* run_common_analysis: diffs, times, descriptions, day_of_week
    error,       \* the exception that ended the run (NoError: none)
    tmpdirs,     \* number of scratch clone directories that exist
    now,         \* the clock (seconds)
    core_reset,  \* core_rate_limit.reset, read once at import time
    exhausted_until, \* the service answers "quota exceeded" while now < this
    exhaustions, \* number of times the quota ran out
    hist,        \* history of the run: the artifacts written, how the
                 \* last candidate of download_repos ended
    duration,    \* a call of convert_to_frequency on its own: the weeks, days,
                 \* hours and minutes its argument `seconds` is made of
    frequency    \* that call's return value

vars == <<pc, argv, store, crons, found, total, idx, filename, content, stats,
          error, tmpdirs, now, core_reset, exhausted_until, exhaustions, hist,
          duration, frequency>>

(* The variables of the service and the clock. *)
quota == <<now, core_reset, exhausted_until, exhaustions>>
(* The locals of download_repos. *)
loop == <<found, total, idx, filename, content, tmpdirs>>
(* The call of convert_to_frequency on its own. *)
call == <<duration, frequency>>

---------------------------------------------------------------------------
(* Bounds of the model *)

MaxResults == 2
MaxExhaust == 2
PageSize == 1

(* Length of the quota window of the service, in seconds. *)
Window == 12

(* Largest number of weeks of a duration given to convert_to_frequency. *)
MaxWeeks == 2

(* rate_limit_wait: "add 5 seconds to be sure the rate limit has been reset" *)
GraceSeconds == 5

---------------------------------------------------------------------------
(* Values *)

NoArg == "<none>"
NoError == "<none>"

(* A file on disk: None when it does not exist, Some(v) when it holds v. *)
None == <<>>
Some(v) == <<v>>

Repos == {"r1", "r2"}
Paths == {"p1", "p2"}
Usernames == {"alice", "bob"}

(* A cron expression is the sequence of its whitespace separated fields. *)
CronDaily == <<"0", "0", "*", "*", "*">>
CronDailyQ == <<"0", "0", "?", "*", "*">>
CronMonday == <<"0", "0", "*", "*", "1">>
CronBad == <<"61", "0", "*", "*", "*">>

(* The schedule sections the repositories of the service hold. *)
Schedules ==
    { <<[cron |-> CronDaily]>>,
      <<[cron |-> CronDailyQ], [name |-> "nightly"]>>,
      <<[cron |-> CronMonday]>>,
      <<[cron |-> CronBad]>> }

---------------------------------------------------------------------------
(* Dictionaries *)

(* A corpus is a dict of dicts: repository -> path -> schedule list.  It is *)
(* a function whose DOMAIN is the set of keys present.                      *)
EmptyDict == <<>>

(* A merge that extends what is there instead of overwriting it. *)
DictUpdateExtending(d, other) ==
    [k \in (DOMAIN d) \cup (DOMAIN other) |->
        IF k \in (DOMAIN d) \cap (DOMAIN other)
        THEN [p \in (DOMAIN d[k]) \cup (DOMAIN other[k]) |->
                 IF p \in (DOMAIN d[k]) \cap (DOMAIN other[k])
                 THEN d[k][p] \o other[k][p]
                 ELSE IF p \in DOMAIN other[k] THEN other[k][p] ELSE d[k][p]]
        ELSE IF k \in DOMAIN other THEN other[k] ELSE d[k]]

(* dict.update(other): every key of `other` is set to other's value, the    *)
(* values are not combined.                                                 *)
DictUpdate(d, other) ==
    [k \in (DOMAIN d) \cup (DOMAIN other) |->
        IF k \in DOMAIN other THEN other[k] ELSE d[k]]

(* d[k] = v *)
DictSet(d, k, v) ==
    [x \in (DOMAIN d) \cup {k} |-> IF x = k THEN v ELSE d[x]]

(* The (repository, path) pairs of a corpus. *)
Pairs(c) == { <<r, p>> \in Repos \X Paths : r \in DOMAIN c /\ p \in DOMAIN c[r] }

(* Iteration order of the keys (a stand-in for insertion order). *)
RepoOrder == <<"r1", "r2">>
PathOrder == <<"p1", "p2">>

(* An ordered dict with computed keys: a sequence of <<key, value>> pairs. *)
ODictHas(d, k) == \E i \in DOMAIN d : d[i][1] = k
ODictGet(d, k) == d[CHOOSE i \in DOMAIN d : d[i][1] = k][2]
ODictSet(d, k, v) ==
    IF ODictHas(d, k)
    THEN [i \in DOMAIN d |-> IF d[i][1] = k THEN <<k, v>> ELSE d[i]]
    ELSE Append(d, <<k, v>>)

(* d[k] = 0 when absent, then d[k] += 1 *)
ODictIncr(d, k) == ODictSet(d, k, (IF ODictHas(d, k) THEN ODictGet(d, k) ELSE 0) + 1)

(* An insertion that sorts ascending. *)
RECURSIVE InsertAsc(_, _, _)
InsertAsc(sorted, item, col) ==
    IF sorted = <<>> THEN <<item>>
    ELSE IF Head(sorted)[col] <= item[col]
         THEN <<Head(sorted)>> \o InsertAsc(Tail(sorted), item, col)
         ELSE <<item>> \o sorted

(* sorted(items, key=itemgetter(col), reverse=True): stable, descending. *)
RECURSIVE InsertDesc(_, _, _)
InsertDesc(sorted, item, col) ==
    IF sorted = <<>> THEN <<item>>
    ELSE IF Head(sorted)[col] >= item[col]
         THEN <<Head(sorted)>> \o InsertDesc(Tail(sorted), item, col)
         ELSE <<item>> \o sorted

RECURSIVE SortedDesc(_, _)
SortedDesc(items, col) ==
    IF items = <<>> THEN <<>>
    ELSE InsertDesc(SortedDesc(SubSeq(items, 1, Len(items) - 1), col),
                    items[Len(items)], col)

(* for repo, files in crons.items(): for filename, cronlist in files.items(): *)
(*     for entry in cronlist                                                   *)
RECURSIVE EntriesFrom(_, _, _)
EntriesFrom(c, i, j) ==
    IF i > Len(RepoOrder) THEN <<>>
    ELSE IF j > Len(PathOrder) THEN EntriesFrom(c, i + 1, 1)
    ELSE LET r == RepoOrder[i]
             p == PathOrder[j]
         IN  (IF r \in DOMAIN c /\ p \in DOMAIN c[r] THEN c[r][p] ELSE <<>>)
             \o EntriesFrom(c, i, j + 1)

Entries(c) == EntriesFrom(c, 1, 1)

---------------------------------------------------------------------------
(* convert_to_frequency *)

(* A conversion that takes the days of the whole duration, the weeks not    *)
(* subtracted.                                                              *)
ConvertDaysOfTotal(seconds) ==
    LET weeks == seconds \div (60 * 60 * 24 * 7)
        days == seconds \div (60 * 60 * 24)
        hours == (seconds - (days * 60 * 60 * 24)) \div (60 * 60)
        minutes == (seconds - (days * 60 * 60 * 24) - (hours * 60 * 60)) \div 60
    IN  (IF weeks # 0 THEN <<<<weeks, "weeks">>>> ELSE <<>>)
        \o (IF days # 0 THEN <<<<days, "days">>>> ELSE <<>>)
        \o (IF hours # 0 THEN <<<<hours, "hours">>>> ELSE <<>>)
        \o (IF minutes # 0 THEN <<<<minutes, "minutes">>>> ELSE <<>>)

(* The phrase is the sequence of its "<n> <unit>" parts. *)
convert_to_frequency(seconds) ==
    LET seconds_in_week == 60 * 60 * 24 * 7
        seconds_in_day == 60 * 60 * 24
        seconds_in_hour == 60 * 60
        seconds_in_minute == 60
        weeks == seconds \div seconds_in_week
        days == (seconds - (weeks * seconds_in_week)) \div seconds_in_day
        hours == (seconds - (weeks * seconds_in_week) - (days * seconds_in_day))
                     \div seconds_in_hour
        minutes == (seconds - (weeks * seconds_in_week) - (days * seconds_in_day)
                       - (hours * seconds_in_hour)) \div seconds_in_minute
    IN  (IF weeks # 0 THEN <<<<weeks, "weeks">>>> ELSE <<>>)
        \o (IF days # 0 THEN <<<<days, "days">>>> ELSE <<>>)
        \o (IF hours # 0 THEN <<<<hours, "hours">>>> ELSE <<>>)
        \o (IF minutes # 0 THEN <<<<minutes, "minutes">>>> ELSE <<>>)

---------------------------------------------------------------------------
(* calculate_frequencies *)

(* entry["cron"].replace("?", "*") *)
ReplaceQuestionMark(cron) ==
    [i \in DOMAIN cron |-> IF cron[i] = "?" THEN "*" ELSE cron[i]]

(* croniter(expr): raises CroniterBadCronError unless the expression is a   *)
(* valid pattern; '?' is not accepted.                                      *)
CroniterAccepts(cron) == cron \in {CronDaily, CronMonday}

(* int(cron.get_next()) twice, and the difference of the two timestamps. *)
FireDelta(cron) ==
    CASE cron = CronDaily -> 86400
      [] cron = CronMonday -> 604800

(* The loop over the entries: the tally `differences`; raised when croniter *)
(* rejects an expression (the exception is not caught).                     *)
RECURSIVE TallyDifferences(_, _)
TallyDifferences(entries, differences) ==
    IF entries = <<>> THEN [raised |-> FALSE, differences |-> differences]
    ELSE LET entry == Head(entries)
         IN  IF "cron" \notin DOMAIN entry
             THEN TallyDifferences(Tail(entries), differences)
             ELSE LET cron == ReplaceQuestionMark(entry.cron)
                  IN  IF ~CroniterAccepts(cron)
                      THEN [raised |-> TRUE, differences |-> differences]
                      ELSE TallyDifferences(Tail(entries),
                                            ODictIncr(differences, FireDelta(cron)))

(* The two views: phrase -> count, in the order of the sorted tally. *)
RECURSIVE HumanReadable(_, _)
HumanReadable(diffsets, view) ==
    IF diffsets = <<>> THEN view
    ELSE HumanReadable(Tail(diffsets),
                       ODictSet(view, convert_to_frequency(Head(diffsets)[1]),
                                Head(diffsets)[2]))

calculate_frequencies(c) ==
    LET tally == TallyDifferences(Entries(c), <<>>)
    IN  [raised |-> tally.raised,
         diffs |-> [by_freq |-> HumanReadable(SortedDesc(tally.differences, 1), <<>>),
                    by_count |-> HumanReadable(SortedDesc(tally.differences, 2), <<>>)]]

(* calculate_frequencies assigns entry["cron"] in place: the corpus it was  *)
(* given, after a call that returned.                                       *)
NormalizedEntry(entry) ==
    IF "cron" \in DOMAIN entry
    THEN [entry EXCEPT !.cron = ReplaceQuestionMark(entry.cron)]
    ELSE entry

CorpusAfterFrequencies(c) ==
    [r \in DOMAIN c |-> [p \in DOMAIN c[r] |->
        [i \in DOMAIN c[r][p] |-> NormalizedEntry(c[r][p][i])]]]

---------------------------------------------------------------------------
(* calculate_times_descriptions *)

(* A description is the sequence of its words. *)
DescDailyPretty == <<"At", "00:00", "every", "day">>
DescMondayPretty == <<"At", "00:00", "every", "Monday">>
DescDailyVerbose == <<"At", "12:00", "AM">>

(* pretty_cron.prettify_cron(expr): the phrase, or the expression itself    *)
(* when pretty_cron cannot render it.                                       *)
prettify_cron(cron) ==
    CASE cron = CronDaily -> DescDailyPretty
      [] cron = CronMonday -> DescMondayPretty
      [] OTHER -> cron

(* cron_descriptor.get_description(expr): accepts '?', raises on an         *)
(* expression that is no cron pattern.                                      *)
DescriptorAccepts(cron) == cron \in {CronDaily, CronDailyQ, CronMonday}
get_description(cron) ==
    CASE cron = CronMonday -> <<"At", "12:00", "AM,", "only", "on", "Monday">>
      [] OTHER -> DescDailyVerbose

(* re.search("[0-9]{2}:[0-9]{2}", description) *)
TimeTokens == {"00:00", "12:00"}
HasTime(description) == \E i \in DOMAIN description : description[i] \in TimeTokens
TimeOf(description) ==
    description[CHOOSE i \in DOMAIN description :
                    /\ description[i] \in TimeTokens
                    /\ \A j \in 1..(i - 1) : description[j] \notin TimeTokens]

RECURSIVE TallyTimesDescriptions(_, _, _)
TallyTimesDescriptions(entries, times, descriptions) ==
    IF entries = <<>>
    THEN [raised |-> FALSE, times |-> times, descriptions |-> descriptions]
    ELSE LET entry == Head(entries)
         IN  IF "cron" \notin DOMAIN entry
             THEN TallyTimesDescriptions(Tail(entries), times, descriptions)
             ELSE LET pretty == prettify_cron(entry.cron)
                      fallback == pretty[1] # "At"
                  IN  IF fallback /\ ~DescriptorAccepts(entry.cron)
                      THEN [raised |-> TRUE, times |-> times,
                            descriptions |-> descriptions]
                      ELSE LET description == IF fallback
                                              THEN get_description(entry.cron)
                                              ELSE pretty
                               counted == ODictIncr(descriptions, description)
                           IN  IF ~HasTime(description)
                               THEN TallyTimesDescriptions(Tail(entries), times, counted)
                               ELSE TallyTimesDescriptions(Tail(entries),
                                        ODictIncr(times, TimeOf(description)), counted)

(* `times` is kept in tally order; sorted(times.items()) orders it by the   *)
(* "HH:MM" text, which the model does not compare.                          *)
calculate_times_descriptions(c) ==
    LET tally == TallyTimesDescriptions(Entries(c), <<>>, <<>>)
    IN  [raised |-> tally.raised,
         times |-> tally.times,
         descriptions |-> SortedDesc(tally.descriptions, 2)]

---------------------------------------------------------------------------
(* calculate_day_of_week *)

DayKeys == <<"day", "Sunday", "Monday", "Tuesday", "Wednesday", "Thursday",
             "Friday", "Saturday">>

(* ("every %s" % key) in description *)
ContainsEvery(description, key) ==
    \E i \in 1..(Len(description) - 1) :
        description[i] = "every" /\ description[i + 1] = key

RECURSIVE TallyKeys(_, _, _)
TallyKeys(description, k, day_of_week) ==
    IF k > Len(DayKeys) THEN day_of_week
    ELSE TallyKeys(description, k + 1,
                   IF ContainsEvery(description, DayKeys[k])
                   THEN ODictIncr(day_of_week, <<"every", DayKeys[k]>>)
                   ELSE day_of_week)

RECURSIVE TallyDays(_, _)
TallyDays(descriptions, day_of_week) ==
    IF descriptions = <<>> THEN day_of_week
    ELSE TallyDays(Tail(descriptions),
                   TallyKeys(Head(descriptions)[1], 1, day_of_week))

calculate_day_of_week(descriptions) == SortedDesc(TallyDays(descriptions, <<>>), 2)

---------------------------------------------------------------------------
(* The service and the disk *)

Owner == [r \in Repos |-> IF r = "r1" THEN "alice" ELSE "bob"]

(* A search result: filename.repository.full_name and filename.path. *)
Candidates == [repo : Repos, path : Paths]
NoCandidate == [repo |-> "", path |-> ""]

(* What a search can return: any candidates for the unscoped query, the     *)
(* candidates of the account's repositories for "user:<username>".  The     *)
(* result list is lazy: its elements come from the service page by page.    *)
SearchResults(arg) == { c \in Candidates : arg = NoArg \/ Owner[c.repo] = arg }

(* The quota window of the service: the reset time it reports at time t. *)
ResetOf(t) == ((t \div Window) + 1) * Window

(* The service answers RateLimitExceededException. *)
RateLimited == now < exhausted_until

(* read_yaml(filepath): the outcome for a workflow file.  A document maps   *)
(* top level keys to sections; the YAML key  on  is read as the boolean     *)
(* True (KeyTrue) unless it is quoted ("on").                               *)
KeyTrue == "<True>"
PushOnly == [push |-> <<>>]
Scheduled(s) == [schedule |-> s]
Documents ==
    { [name |-> "ci"] }
    \cup { DictSet([name |-> "ci"], k, PushOnly) : k \in {KeyTrue, "on"} }
    \cup { DictSet([name |-> "ci"], k, Scheduled(s)) : k \in {KeyTrue, "on"}, s \in Schedules }
    \cup { DictSet(DictSet([name |-> "ci"], KeyTrue, PushOnly), "on", Scheduled(s)) :
               s \in Schedules }
YamlOutcomes ==
    { [raised |-> TRUE, doc |-> EmptyDict] }
    \cup { [raised |-> FALSE, doc |-> d] : d \in Documents }
NoContent == [raised |-> FALSE, doc |-> EmptyDict]

(* Directories are paths: sequences of components. *)
GlobalDir == <<"data">>
(* The second join forgotten. *)
AccountDirNotJoined(username) == GlobalDir

(* os.path.join(os.path.join(here, "data"), username) *)
AccountDir(username) == Append(GlobalDir, username)
(* data_dir of the current run *)
DataDir == IF argv = NoArg THEN GlobalDir ELSE AccountDir(argv)

Artifacts == {"crons", "frequencies", "times", "descriptions", "day_of_week"}
EmptyDirectory == [a \in Artifacts |-> None]

(* write_json(content, os.path.join(data_dir, name + ".json")) *)
write_json(disk, dir, name, value) ==
    [disk EXCEPT ![dir] = [@ EXCEPT ![name] = Some(value)]]

NoStats == [diffs |-> <<>>, times |-> <<>>, descriptions |-> <<>>, day_of_week |-> <<>>]
NoHist == [written |-> {}, last |-> "none"]
NoDuration == [weeks |-> 0, days |-> 0, hours |-> 0, minutes |-> 0]

(* The artifacts a completed run leaves for a corpus. *)
ArtifactsOf(c) ==
    LET f == calculate_frequencies(c)
        t == calculate_times_descriptions(CorpusAfterFrequencies(c))
    IN  [crons |-> Some(c),
         frequencies |-> Some(f.diffs),
         times |-> Some(t.times),
         descriptions |-> Some(t.descriptions),
         day_of_week |-> Some(calculate_day_of_week(t.descriptions))]

(* The data directory before the first run of the model: nothing persisted  *)
(* yet, or what earlier runs have left.                                     *)
InitialCorpora ==
    { EmptyDict,
      [r1 |-> [p1 |-> <<[cron |-> CronDaily]>>, p2 |-> <<[cron |-> CronMonday]>>]] }

(* An earlier scoped run may have left the directory of an account. *)
InitialAccount == "alice"
InitialAccountCorpus == [r1 |-> [p2 |-> <<[cron |-> CronDaily]>>]]

InitialStores ==
    LET global == { EmptyDirectory } \cup { ArtifactsOf(c) : c \in InitialCorpora }
    IN  { [d \in {GlobalDir} |-> g] : g \in global }
        \cup { [d \in {GlobalDir, AccountDir(InitialAccount)} |->
                   IF d = GlobalDir THEN g ELSE ArtifactsOf(InitialAccountCorpus)] :
                 g \in global }

Init ==
    /\ pc = "idle"
    /\ argv = NoArg
    /\ store \in InitialStores
    /\ crons = EmptyDict
    /\ found = EmptyDict
    /\ total = 0
    /\ idx = 0
    /\ filename = NoCandidate
    /\ content = NoContent
    /\ stats = NoStats
    /\ error = NoError
    /\ tmpdirs = 0
    /\ now = 0
    /\ core_reset = 0
    /\ exhausted_until = 0
    /\ exhaustions = 0
    /\ hist = NoHist
    /\ duration = NoDuration
    /\ frequency = <<>>

---------------------------------------------------------------------------
(* The run *)

Abort(exception) ==
    /\ pc' = "aborted"
    /\ error' = exception

(* The interpreter starts: the module level statements (core_rate_limit is  *)
(* read from the service here, once), then main() looks at sys.argv.        *)
main ==
    /\ pc = "idle"
    /\ \E arg \in {NoArg} \cup Usernames :
        /\ argv' = arg
        /\ pc' = IF arg = NoArg THEN "run_analysis" ELSE "do_code_search"
    /\ core_reset' = ResetOf(now)
    /\ crons' = EmptyDict
    /\ found' = EmptyDict
    /\ total' = 0
    /\ idx' = 0
    /\ filename' = NoCandidate
    /\ content' = NoContent
    /\ stats' = NoStats
    /\ error' = NoError
    /\ tmpdirs' = 0
    /\ hist' = NoHist
    /\ UNCHANGED <<store, now, exhausted_until, exhaustions>>
    /\ UNCHANGED call

(* The quota of the token runs out: until the window resets the service     *)
(* answers every request with RateLimitExceededException.                   *)
QuotaExhausted ==
    /\ pc \in {"do_code_search", "download_repos", "clone"}
    /\ ~RateLimited
    /\ exhaustions < MaxExhaust
    /\ exhaustions' = exhaustions + 1
    /\ exhausted_until' = ResetOf(now)
    /\ UNCHANGED <<pc, argv, store, crons, loop, stats, error, now, core_reset,
                   hist>>
    /\ UNCHANGED call

(* run_analysis, lines 345-347: crons = read_json(data/crons.json) *)
LoadCorpus ==
    /\ pc = "run_analysis"
    /\ IF store[GlobalDir]["crons"] = None
       THEN /\ Abort("FileNotFoundError")
            /\ UNCHANGED crons
       ELSE /\ crons' = store[GlobalDir]["crons"][1]
            /\ pc' = "do_code_search"
            /\ UNCHANGED error
    /\ UNCHANGED <<argv, store, loop, stats, quota, hist>>
    /\ UNCHANGED call

(* do_code_search: g.search_code(...) and code_search.totalCount, neither   *)
(* wrapped by call_rate_limit_aware.                                        *)
do_code_search ==
    /\ pc = "do_code_search"
    /\ IF RateLimited
       THEN /\ Abort("RateLimitExceededException")
            /\ UNCHANGED total
       ELSE /\ total' \in 0..MaxResults
            /\ pc' = "download_repos"
            /\ UNCHANGED error
    /\ UNCHANGED <<argv, store, crons, found, idx, filename, content, tmpdirs,
                   stats, quota, hist>>
    /\ UNCHANGED call

(* The iterator of code_search asks the service for the next page. *)
NeedsPage(i) == i > 0 /\ i % PageSize = 0

(* download_repos, lines 161-170: the for statement takes the next          *)
(* candidate, its repository gets a key, the scratch directory is created.  *)
NextCandidate ==
    /\ pc = "download_repos"
    /\ idx < total
    /\ IF NeedsPage(idx) /\ RateLimited
       THEN /\ Abort("RateLimitExceededException")
            /\ UNCHANGED <<idx, filename, found, tmpdirs, hist>>
       ELSE \E next \in SearchResults(argv) :
                /\ idx' = idx + 1
                /\ filename' = next
                /\ found' = IF next.repo \notin DOMAIN found
                            THEN DictSet(found, next.repo, EmptyDict)
                            ELSE found
                /\ tmpdirs' = tmpdirs + 1
                /\ pc' = "clone"
                /\ UNCHANGED <<error, hist>>
    /\ UNCHANGED <<argv, store, crons, total, content, stats, quota>>
    /\ UNCHANGED call

(* A clone whose git.GitCommandError download_repos does not catch. *)
CloneUncaught ==
    /\ pc = "clone"
    /\ IF RateLimited
       THEN /\ pc' = "rate_limit_wait"
            /\ UNCHANGED <<tmpdirs, hist, error>>
       ELSE \E outcome \in {"ok", "GitCommandError"} :
                IF outcome = "ok"
                THEN /\ pc' = "read_yaml"
                     /\ UNCHANGED <<tmpdirs, hist, error>>
                ELSE /\ Abort("GitCommandError")
                     /\ tmpdirs' = tmpdirs - 1
                     /\ hist' = [hist EXCEPT !.last = "fetch failed"]
    /\ UNCHANGED <<argv, store, crons, found, total, idx, filename, content,
                   stats, quota>>
    /\ UNCHANGED call

(* A clone after whose git.GitCommandError the scratch directory stays. *)
CloneLeaking ==
    /\ pc = "clone"
    /\ IF RateLimited
       THEN /\ pc' = "rate_limit_wait"
            /\ UNCHANGED <<tmpdirs, hist>>
       ELSE \E outcome \in {"ok", "GitCommandError"} :
                IF outcome = "ok"
                THEN /\ pc' = "read_yaml"
                     /\ UNCHANGED <<tmpdirs, hist>>
                ELSE /\ pc' = "download_repos"
                     /\ tmpdirs' = tmpdirs
                     /\ hist' = [hist EXCEPT !.last = "fetch failed"]
    /\ UNCHANGED <<argv, store, crons, found, total, idx, filename, content,
                   stats, error, quota>>
    /\ UNCHANGED call

(* clone, lines 78-81 and 124: one attempt of the decorated function.  The  *)
(* attempt raises RateLimitExceededException (caught by the decorator),     *)
(* raises git.GitCommandError (caught by download_repos, line 175, the      *)
(* with statement removes the scratch directory), or returns.               *)
CloneOutcomes == {"ok", "GitCommandError"}

clone ==
    /\ pc = "clone"
    /\ IF RateLimited
       THEN /\ pc' = "rate_limit_wait"
            /\ UNCHANGED <<tmpdirs, hist>>
       ELSE \E outcome \in CloneOutcomes :
                IF outcome = "ok"
                THEN /\ pc' = "read_yaml"
                     /\ UNCHANGED <<tmpdirs, hist>>
                ELSE /\ pc' = "download_repos"
                     /\ tmpdirs' = tmpdirs - 1
                     /\ hist' = [hist EXCEPT !.last = "fetch failed"]
    /\ UNCHANGED <<argv, store, crons, found, total, idx, filename, content,
                   stats, error, quota>>
    /\ UNCHANGED call

(* The wait without the 5 seconds of line 64. *)
SleepTimeNoGrace(curr_timestamp, reset_timestamp) ==
    IF reset_timestamp - curr_timestamp > 0
    THEN reset_timestamp - curr_timestamp ELSE 0

(* rate_limit_wait, lines 60-66 *)
SleepTime(curr_timestamp, reset_timestamp) ==
    (IF reset_timestamp - curr_timestamp > 0
     THEN reset_timestamp - curr_timestamp ELSE 0) + GraceSeconds

rate_limit_wait ==
    /\ pc = "rate_limit_wait"
    /\ now' = now + SleepTime(now, core_reset)
    /\ pc' = "clone"
    /\ UNCHANGED <<argv, store, crons, loop, stats, error, core_reset,
                   exhausted_until, exhaustions, hist>>
    /\ UNCHANGED call

(* download_repos, lines 180-181: content = read_yaml(filepath) *)
ReadYaml ==
    /\ pc = "read_yaml"
    /\ content' \in YamlOutcomes
    /\ pc' = "extract"
    /\ UNCHANGED <<argv, store, crons, found, total, idx, filename, tmpdirs,
                   stats, error, quota, hist>>
    /\ UNCHANGED call

(* A choice of the key that consults the literal "on" first. *)
TriggerKeyOnFirst(doc) ==
    IF "on" \in DOMAIN doc THEN "on" ELSE KeyTrue

(* download_repos, lines 184-186: the key of the trigger section *)
TriggerKey(doc) ==
    IF KeyTrue \notin DOMAIN doc /\ "on" \in DOMAIN doc THEN "on" ELSE KeyTrue

(* download_repos, lines 187-188: the record of a document, when line 187   *)
(* does not raise                                                           *)
HasSchedule(doc) ==
    /\ TriggerKey(doc) \in DOMAIN doc
    /\ "schedule" \in DOMAIN doc[TriggerKey(doc)]

(* An extraction that saves the lookup after every candidate. *)
ExtractPersisting ==
    /\ pc = "extract"
    /\ IF ~content.raised /\ HasSchedule(content.doc)
       THEN /\ found' = [found EXCEPT ![filename.repo] =
                             DictSet(@, filename.path,
                                     content.doc[TriggerKey(content.doc)].schedule)]
            /\ hist' = [hist EXCEPT !.last = "recorded", !.written = @ \cup {"crons"}]
            /\ store' = IF DataDir \in DOMAIN store
                        THEN write_json(store, DataDir, "crons", found')
                        ELSE store
       ELSE /\ found' = found
            /\ store' = store
            /\ hist' = [hist EXCEPT !.last = IF content.raised
                                             THEN "parse failed"
                                             ELSE "no schedule"]
    /\ content' = NoContent
    /\ tmpdirs' = tmpdirs - 1
    /\ pc' = "download_repos"
    /\ UNCHANGED <<argv, crons, total, idx, filename, stats, error, quota>>
    /\ UNCHANGED call

(* download_repos, lines 184-191: the rest of the try block; every          *)
(* exception ends in the bare except.  The with statement ends.             *)
Extract ==
    /\ pc = "extract"
    /\ IF ~content.raised /\ HasSchedule(content.doc)
       THEN /\ found' = [found EXCEPT ![filename.repo] =
                             DictSet(@, filename.path,
                                     content.doc[TriggerKey(content.doc)].schedule)]
            /\ hist' = [hist EXCEPT !.last = "recorded"]
       ELSE /\ found' = found
            /\ hist' = [hist EXCEPT !.last = IF content.raised
                                             THEN "parse failed"
                                             ELSE "no schedule"]
    /\ content' = NoContent
    /\ tmpdirs' = tmpdirs - 1
    /\ pc' = "download_repos"
    /\ UNCHANGED <<argv, store, crons, total, idx, filename, stats, error,
                   quota>>
    /\ UNCHANGED call

(* download_repos, line 192: return crons.  run_analysis merges (line 351), *)
(* run_username_analysis takes the lookup as its corpus (line 310).  The    *)
(* other locals of download_repos end here.                                 *)
ReturnCrons ==
    /\ pc = "download_repos"
    /\ idx = total
    /\ pc' = IF argv = NoArg THEN "update" ELSE "makedirs"
    /\ crons' = IF argv = NoArg THEN crons ELSE found
    /\ total' = 0
    /\ idx' = 0
    /\ filename' = NoCandidate
    /\ hist' = [hist EXCEPT !.last = "returned"]
    /\ UNCHANGED <<argv, store, found, content, tmpdirs, stats, error, quota>>
    /\ UNCHANGED call

(* run_analysis, line 351: crons.update(download_repos(code_search)) *)
UpdateCrons ==
    /\ pc = "update"
    /\ crons' = DictUpdate(crons, found)
    /\ pc' = "write_crons"
    /\ UNCHANGED <<argv, store, loop, stats, error, quota, hist>>
    /\ UNCHANGED call

(* run_username_analysis, lines 312-315 *)
Makedirs ==
    /\ pc = "makedirs"
    /\ store' = IF AccountDir(argv) \in DOMAIN store THEN store
                ELSE DictSet(store, AccountDir(argv), EmptyDirectory)
    /\ pc' = "write_crons"
    /\ UNCHANGED <<argv, crons, loop, stats, error, quota, hist>>
    /\ UNCHANGED call

---------------------------------------------------------------------------
(* run_common_analysis *)

Written(name) == [hist EXCEPT !.written = @ \cup {name}]

(* line 324: "First save".  The lookup download_repos returned is not      *)
(* referenced any more (in a scoped run it is the corpus itself).           *)
WriteCrons ==
    /\ pc = "write_crons"
    /\ store' = write_json(store, DataDir, "crons", crons)
    /\ hist' = Written("crons")
    /\ found' = EmptyDict
    /\ pc' = "calculate_frequencies"
    /\ UNCHANGED <<argv, crons, total, idx, filename, content, tmpdirs, stats,
                   error, quota>>
    /\ UNCHANGED call

(* line 328 *)
CalculateFrequencies ==
    /\ pc = "calculate_frequencies"
    /\ LET r == calculate_frequencies(crons)
       IN  IF r.raised
           THEN /\ Abort("CroniterBadCronError")
                /\ UNCHANGED <<stats, crons>>
           ELSE /\ stats' = [stats EXCEPT !.diffs = r.diffs]
                /\ crons' = CorpusAfterFrequencies(crons)
                /\ pc' = "write_frequencies"
                /\ UNCHANGED error
    /\ UNCHANGED <<argv, store, loop, quota, hist>>
    /\ UNCHANGED call

(* line 329 *)
WriteFrequencies ==
    /\ pc = "write_frequencies"
    /\ store' = write_json(store, DataDir, "frequencies", stats.diffs)
    /\ hist' = Written("frequencies")
    /\ pc' = "calculate_times_descriptions"
    /\ UNCHANGED <<argv, crons, loop, stats, error, quota>>
    /\ UNCHANGED call

(* line 333 *)
CalculateTimesDescriptions ==
    /\ pc = "calculate_times_descriptions"
    /\ LET r == calculate_times_descriptions(crons)
       IN  IF r.raised
           THEN /\ Abort("FormatException")
                /\ UNCHANGED stats
           ELSE /\ stats' = [stats EXCEPT !.times = r.times,
                                          !.descriptions = r.descriptions]
                /\ pc' = "write_times"
                /\ UNCHANGED error
    /\ UNCHANGED <<argv, store, crons, loop, quota, hist>>
    /\ UNCHANGED call

(* line 334 *)
WriteTimes ==
    /\ pc = "write_times"
    /\ store' = write_json(store, DataDir, "times", stats.times)
    /\ hist' = Written("times")
    /\ pc' = "write_descriptions"
    /\ UNCHANGED <<argv, crons, loop, stats, error, quota>>
    /\ UNCHANGED call

(* line 335 *)
WriteDescriptions ==
    /\ pc = "write_descriptions"
    /\ store' = write_json(store, DataDir, "descriptions", stats.descriptions)
    /\ hist' = Written("descriptions")
    /\ pc' = "calculate_day_of_week"
    /\ UNCHANGED <<argv, crons, loop, stats, error, quota>>
    /\ UNCHANGED call

(* line 338 *)
CalculateDayOfWeek ==
    /\ pc = "calculate_day_of_week"
    /\ stats' = [stats EXCEPT !.day_of_week = calculate_day_of_week(stats.descriptions)]
    /\ pc' = "write_day_of_week"
    /\ UNCHANGED <<argv, store, crons, loop, error, quota, hist>>
    /\ UNCHANGED call

(* line 339 *)
WriteDayOfWeek ==
    /\ pc = "write_day_of_week"
    /\ store' = write_json(store, DataDir, "day_of_week", stats.day_of_week)
    /\ hist' = Written("day_of_week")
    /\ pc' = "done"
    /\ UNCHANGED <<argv, crons, loop, stats, error, quota>>
    /\ UNCHANGED call

---------------------------------------------------------------------------
(* Specifications *)

(* A step of the script. *)
Step ==
    \/ LoadCorpus
    \/ do_code_search
    \/ NextCandidate
    \/ clone
    \/ rate_limit_wait
    \/ ReadYaml
    \/ Extract
    \/ ReturnCrons
    \/ UpdateCrons
    \/ Makedirs
    \/ WriteCrons
    \/ CalculateFrequencies
    \/ WriteFrequencies
    \/ CalculateTimesDescriptions
    \/ WriteTimes
    \/ WriteDescriptions
    \/ CalculateDayOfWeek
    \/ WriteDayOfWeek

Next ==
    \/ main
    \/ QuotaExhausted
    \/ Step

Spec == Init /\ [][Next]_vars

(* The interpreter keeps executing the call of clone it is in (single       *)
(* thread, blocking calls: an attempt ends, a sleep ends); the quota runs   *)
(* out at most MaxExhaust times.                                            *)
FairSpec == Spec /\ WF_vars(clone) /\ WF_vars(rate_limit_wait)

(* convert_to_frequency on its own: one call, on a duration made of whole   *)
(* weeks, days, hours and minutes.                                          *)
Durations == [weeks : 0..MaxWeeks, days : 0..6, hours : 0..23, minutes : 0..59]

(* The argument of the call: the seconds of a duration. *)
SecondsOf(d) == 604800 * d.weeks + 86400 * d.days + 3600 * d.hours + 60 * d.minutes

ConvertInit ==
    /\ pc = "convert_to_frequency"
    /\ argv = NoArg
    /\ store = [d \in {GlobalDir} |-> EmptyDirectory]
    /\ crons = EmptyDict
    /\ found = EmptyDict
    /\ total = 0
    /\ idx = 0
    /\ filename = NoCandidate
    /\ content = NoContent
    /\ stats = NoStats
    /\ error = NoError
    /\ tmpdirs = 0
    /\ now = 0
    /\ core_reset = 0
    /\ exhausted_until = 0
    /\ exhaustions = 0
    /\ hist = NoHist
    /\ duration \in Durations
    /\ frequency = <<>>

ConvertToFrequency ==
    /\ pc = "convert_to_frequency"
    /\ frequency' = convert_to_frequency(SecondsOf(duration))
    /\ pc' = "converted"
    /\ UNCHANGED <<argv, store, crons, loop, stats, error, quota, hist, duration>>

ConvertSpec == ConvertInit /\ [][ConvertToFrequency]_vars

---------------------------------------------------------------------------
(* Properties *)

FullScan == argv = NoArg
ScopedScan == argv # NoArg

(* The corpus run_analysis loaded: crons.json is not written before         *)
(* WriteCrons.                                                              *)
Loaded == store[GlobalDir]["crons"][1]

(* The merge of run_analysis has happened and nothing is written yet. *)
Merged == FullScan /\ pc = "write_crons"

(* C1: after the merge of a full scan every discovered (repository, path)   *)
(* pair maps to the entries of this run, and every pair of the loaded       *)
(* corpus that was not discovered is still there with its entries.          *)
C1_MergePostcondition ==
    Merged =>
        /\ \A rp \in Pairs(found) :
               rp \in Pairs(crons) /\ crons[rp[1]][rp[2]] = found[rp[1]][rp[2]]
        /\ \A rp \in Pairs(Loaded) \ Pairs(found) :
               rp \in Pairs(crons) /\ crons[rp[1]][rp[2]] = Loaded[rp[1]][rp[2]]

(* C2: merging the discovery set a second time changes nothing: the corpus  *)
(* after the merge is a fixed point of merging the same discoveries, and so *)
(* are the artifacts derived from it.                                       *)
C2_MergeIdempotent ==
    Merged =>
        /\ DictUpdate(crons, found) = crons
        /\ ArtifactsOf(DictUpdate(crons, found)) = ArtifactsOf(crons)

(* A merge of discoveries into a corpus that holds the same repository. *)
C2_Witness ==
    /\ Merged
    /\ \E r \in (DOMAIN found) \cap (DOMAIN Loaded) :
           found[r] # EmptyDict /\ found[r] # Loaded[r]

(* C3: no run ends with a quota-exceeded failure. *)
C3_QuotaNeverSurfaced == error # "RateLimitExceededException"

(* C4: in the wrapped clone a quota-exceeded attempt is followed by one     *)
(* wait and then another attempt; an attempt that does not fail with        *)
(* quota-exceeded ends the call at once, by its return or its exception,    *)
(* without a wait; and once the quota stops running out the call ends.      *)
InClone == pc \in {"clone", "rate_limit_wait"}
C4_RetryUntilQuotaResets ==
    /\ [][/\ (pc = "clone" /\ RateLimited) =>
                (pc' = "rate_limit_wait" /\ now' = now /\ idx' = idx)
          /\ pc = "rate_limit_wait" =>
                (pc' = "clone" /\ now' >= now + GraceSeconds /\ idx' = idx)
          /\ (pc = "clone" /\ ~RateLimited /\ pc' # "clone") =>
                (pc' \in {"read_yaml", "download_repos"} /\ now' = now)]_vars
    /\ (InClone ~> ~InClone)

(* The clone of the first candidate has returned after a wait. *)
C4_Witness == pc = "read_yaml" /\ idx = 1 /\ now > 0

(* C5: every wait lasts max(0, reset - now) + 5 seconds for the reset time  *)
(* the service reports now, so it lasts at least 5 seconds and ends no      *)
(* earlier than the quota reset of the service.                             *)
C5_WaitCoversReset ==
    [][pc = "rate_limit_wait" =>
          /\ now' - now = SleepTime(now, ResetOf(now))
          /\ now' - now >= GraceSeconds
          /\ now' >= exhausted_until]_vars

WriteOrder == <<"crons", "frequencies", "times", "descriptions", "day_of_week">>
WrittenPrefix(n) == { WriteOrder[i] : i \in 1..n }

(* The positions before run_common_analysis has written anything. *)
BeforePersistence ==
    {"idle", "run_analysis", "do_code_search", "download_repos", "clone",
     "rate_limit_wait", "read_yaml", "extract", "update", "makedirs", "write_crons"}

IsMalformed(entry) ==
    "cron" \in DOMAIN entry /\ ~CroniterAccepts(ReplaceQuestionMark(entry.cron))
WithoutEntry(c, r, p, i) ==
    [c EXCEPT ![r][p] = SubSeq(@, 1, i - 1) \o SubSeq(@, i + 1, Len(@))]

(* C7: the aggregations of a corpus with a malformed entry complete, with   *)
(* the results of the corpus without that entry.                            *)
C7_MalformedEntrySkipped ==
    pc = "calculate_frequencies" =>
        \A r \in DOMAIN crons : \A p \in DOMAIN crons[r] : \A i \in DOMAIN crons[r][p] :
            IsMalformed(crons[r][p][i]) =>
                LET rest == WithoutEntry(crons, r, p, i)
                IN  /\ ~calculate_frequencies(crons).raised
                    /\ calculate_frequencies(crons).diffs = calculate_frequencies(rest).diffs
                    /\ ~calculate_times_descriptions(crons).raised
                    /\ calculate_times_descriptions(crons)
                           = calculate_times_descriptions(rest)

(* C8: a candidate whose fetch or extraction fails does not end the loop:   *)
(* the loop goes on with the next candidate, returns only after the last    *)
(* one, and a candidate that was fetched and parsed with a schedule section *)
(* is recorded.                                                             *)
C8_FailuresSkipCandidate ==
    /\ [][/\ (pc = "clone" /\ ~RateLimited /\ pc' # "clone") =>
                /\ pc' \in {"read_yaml", "download_repos"}
                /\ error' = NoError /\ idx' = idx /\ found' = found
          /\ pc = "read_yaml" => (pc' = "extract" /\ error' = NoError /\ idx' = idx)
          /\ pc = "extract" =>
                /\ pc' = "download_repos" /\ error' = NoError /\ idx' = idx
                /\ (~content.raised /\ HasSchedule(content.doc)) =>
                       /\ <<filename.repo, filename.path>> \in Pairs(found')
                       /\ found'[filename.repo][filename.path]
                              = content.doc[TriggerKey(content.doc)].schedule
          /\ (pc = "download_repos" /\ pc' = "clone") => idx' = idx + 1
          /\ (pc = "download_repos" /\ pc' \in {"update", "makedirs"}) =>
                (idx = total /\ found' = found)]_vars
    /\ [](/\ idx <= total
          /\ pc = "aborted" =>
                error \in {"FileNotFoundError", "RateLimitExceededException",
                           "CroniterBadCronError", "FormatException"})

(* After a recorded candidate a later one failed and the loop is back at    *)
(* the for statement.                                                       *)
C8_Witness ==
    /\ pc = "download_repos"
    /\ idx >= 2
    /\ hist.last \in {"fetch failed", "parse failed"}
    /\ Pairs(found) # {}

(* C9: when crons.json does not exist the full scan starts from an empty    *)
(* corpus and goes on to the search.                                        *)
C9_AbsentCorpusIsEmpty ==
    [][(pc = "run_analysis" /\ store[GlobalDir]["crons"] = None) =>
          (pc' = "do_code_search" /\ crons' = EmptyDict)]_vars

(* C10: a scoped scan leaves every directory but the one of its account as  *)
(* it is, the global one included; its corpus is what it discovered, never  *)
(* what is persisted; when it completes the five artifacts are in the       *)
(* directory of the account.                                                *)
C10_ScopedIsolation ==
    /\ [][argv' # NoArg =>
             /\ GlobalDir \in DOMAIN store'
             /\ store'[GlobalDir] = store[GlobalDir]
             /\ (\A d \in DOMAIN store :
                     d # AccountDir(argv') => store'[d] = store[d])]_vars
    /\ [](ScopedScan =>
             /\ AccountDir(argv) # GlobalDir
             /\ pc \in {"do_code_search", "download_repos", "clone", "rate_limit_wait",
                        "read_yaml", "extract"} => crons = EmptyDict
             /\ pc \in {"makedirs", "write_crons"} => crons = found
             /\ \A r \in DOMAIN crons : Owner[r] = argv
             /\ pc = "done" =>
                    /\ \A a \in Artifacts : store[AccountDir(argv)][a] # None
                    /\ store[AccountDir(argv)]
                           = ArtifactsOf(store[AccountDir(argv)]["crons"][1]))

(* A completed scoped scan with discoveries, beside a global corpus. *)
C10_Witness ==
    /\ ScopedScan
    /\ pc = "done"
    /\ store[GlobalDir]["crons"] # None
    /\ Pairs(store[AccountDir(argv)]["crons"][1]) # {}

(* The positions inside the with statement of a candidate. *)
InCandidate == {"clone", "rate_limit_wait", "read_yaml", "extract"}

(* C11: the scratch directory of a candidate is created when the candidate  *)
(* starts, before its fetch, and is gone when the candidate ends, whether   *)
(* it was recorded, its fetch failed or its parse failed; so at most one    *)
(* exists at any time: exactly one inside a candidate, none between         *)
(* candidates, when download_repos returns and afterwards.                  *)
C11_ScratchLifecycle ==
    /\ [][/\ (pc = "download_repos" /\ pc' = "clone") =>
                (tmpdirs = 0 /\ tmpdirs' = 1)
          /\ (pc \in InCandidate /\ pc' \in InCandidate) => tmpdirs' = tmpdirs
          /\ (pc \in InCandidate /\ pc' \notin InCandidate) =>
                (pc' = "download_repos" /\ tmpdirs' = 0)]_vars
    /\ [](/\ tmpdirs \in {0, 1}
          /\ pc \in InCandidate => tmpdirs = 1
          /\ pc \notin InCandidate => tmpdirs = 0)

(* The second candidate is at its fetch after the parse of the first one    *)
(* failed.                                                                  *)
C11_Witness ==
    /\ pc = "clone"
    /\ idx = 2
    /\ tmpdirs = 1
    /\ hist.last = "parse failed"

(* The same document with its trigger section under the other key. *)
OtherKey(k) == IF k = KeyTrue THEN "on" ELSE KeyTrue
Rekeyed(doc, k) ==
    [x \in ((DOMAIN doc) \ {k}) \cup {OtherKey(k)} |->
        IF x = OtherKey(k) THEN doc[k] ELSE doc[x]]

(* The trigger keys of a document, and what the lookup holds after the      *)
(* extraction of a candidate whose trigger section is `section`.            *)
TriggerKeys(doc) == {KeyTrue, "on"} \cap DOMAIN doc
RecordedFrom(section) ==
    IF "schedule" \in DOMAIN section
    THEN [found EXCEPT ![filename.repo] = DictSet(@, filename.path, section.schedule)]
    ELSE found

(* C12: a document with its trigger section under the boolean True and the  *)
(* same document with that section under "on" give the same record: the     *)
(* schedule subsection when the section has one, nothing when it has none;  *)
(* with both keys the section under True is the one consulted; with         *)
(* neither nothing is recorded.                                             *)
C12_TriggerKeyEquivalence ==
    [][(pc = "extract" /\ ~content.raised) =>
          LET doc == content.doc
          IN  /\ TriggerKeys(doc) = {} => found' = found
              /\ \A k \in {KeyTrue, "on"} :
                     TriggerKeys(doc) = {k} =>
                         /\ found' = RecordedFrom(doc[k])
                         /\ TriggerKey(Rekeyed(doc, k)) = OtherKey(k)
                         /\ HasSchedule(Rekeyed(doc, k)) = HasSchedule(doc)
                         /\ Rekeyed(doc, k)[TriggerKey(Rekeyed(doc, k))]
                                = doc[TriggerKey(doc)]
              /\ TriggerKeys(doc) = {KeyTrue, "on"} =>
                     found' = RecordedFrom(doc[KeyTrue])]_vars

(* After a recorded candidate, the extraction of a document that has both   *)
(* keys, the schedule under "on".                                           *)
C12_Witness ==
    /\ pc = "extract"
    /\ ~content.raised
    /\ TriggerKeys(content.doc) = {KeyTrue, "on"}
    /\ "schedule" \in DOMAIN content.doc["on"]
    /\ hist.last = "recorded"

(* The positions at which run_common_analysis calls an aggregation. *)
Aggregating ==
    {"calculate_frequencies", "calculate_times_descriptions", "calculate_day_of_week"}

(* C13: no aggregation changes the corpus it is given, and the times and    *)
(* descriptions of a corpus are the same whether or not the frequencies     *)
(* were derived from that corpus before.                                    *)
C13_AggregationsPure ==
    /\ [][(pc \in Aggregating) => crons' = crons]_vars
    /\ []((pc = "calculate_frequencies" /\ ~calculate_frequencies(crons).raised) =>
              calculate_times_descriptions(CorpusAfterFrequencies(crons))
                  = calculate_times_descriptions(crons))

(* C14: a candidate that is skipped adds nothing to the lookup of           *)
(* download_repos, neither a file record nor a repository key: between      *)
(* candidates every repository key of the lookup holds a record; and after  *)
(* the merge of a full scan a repository all of whose candidates were       *)
(* skipped has the entries the loaded corpus held for it.                   *)
C14_SkippedLeavesCorpus ==
    /\ pc = "download_repos" => \A r \in DOMAIN found : found[r] # EmptyDict
    /\ Merged =>
           \A r \in DOMAIN Loaded :
               (r \notin DOMAIN found \/ found[r] = EmptyDict) =>
                   (r \in DOMAIN crons /\ crons[r] = Loaded[r])

(* The parts of a duration that are not zero, in the order weeks, days,     *)
(* hours, minutes.                                                          *)
NonZeroParts(d) ==
    SelectSeq(<<<<d.weeks, "weeks">>, <<d.days, "days">>, <<d.hours, "hours">>,
                <<d.minutes, "minutes">>>>,
              LAMBDA part : part[1] # 0)

(* Reading a phrase back: the number in front of a unit, 0 when the unit    *)
(* is not in the phrase.                                                    *)
CountOf(phrase, unit) ==
    IF \E i \in DOMAIN phrase : phrase[i][2] = unit
    THEN phrase[CHOOSE i \in DOMAIN phrase : phrase[i][2] = unit][1]
    ELSE 0
ParsePhrase(phrase) ==
    [weeks |-> CountOf(phrase, "weeks"), days |-> CountOf(phrase, "days"),
     hours |-> CountOf(phrase, "hours"), minutes |-> CountOf(phrase, "minutes")]

(* The durations that differ from d in one component. *)
OneOff(d) ==
    ({ [d EXCEPT !.weeks = x] : x \in 0..MaxWeeks }
     \cup { [d EXCEPT !.days = x] : x \in 0..6 }
     \cup { [d EXCEPT !.hours = x] : x \in 0..23 }
     \cup { [d EXCEPT !.minutes = x] : x \in 0..59 }) \ {d}

(* C15: for a duration of w weeks, d < 7 days, h < 24 hours and m < 60      *)
(* minutes and no seconds left over, the phrase lists exactly the non-zero  *)
(* components, in the order weeks, days, hours, minutes; reading the phrase *)
(* back gives (w, d, h, m); no other duration renders to the same phrase.   *)
C15_RoundTrip ==
    pc = "converted" =>
        /\ frequency = NonZeroParts(duration)
        /\ \A i \in DOMAIN frequency : frequency[i][1] # 0
        /\ ParsePhrase(frequency) = duration
        /\ SecondsOf(ParsePhrase(frequency)) = SecondsOf(duration)
        /\ \A other \in OneOff(duration) :
               convert_to_frequency(SecondsOf(other)) # frequency

(* A duration with a component that is zero, rendered. *)
C15_Witness ==
    /\ pc = "converted"
    /\ duration = [weeks |-> 1, days |-> 0, hours |-> 23, minutes |-> 59]
    /\ frequency = <<<<1, "weeks">>, <<23, "hours">>, <<59, "minutes">>>>

(* The entries of a corpus that have a cron field. *)
CronEntries(c) == SelectSeq(Entries(c), LAMBDA entry : "cron" \in DOMAIN entry)

RECURSIVE SumOfCounts(_)
SumOfCounts(view) ==
    IF view = <<>> THEN 0 ELSE Head(view)[2] + SumOfCounts(Tail(view))

(* A view of the tally of a corpus: one pair for every distinct delta of    *)
(* the entries, the phrase of the delta with the number of entries that     *)
(* have this delta.                                                         *)
IsViewOfTally(view, c) ==
    LET entries == CronEntries(c)
        deltas == { FireDelta(ReplaceQuestionMark(entries[k].cron)) : k \in DOMAIN entries }
    IN  /\ Len(view) = Cardinality(deltas)
        /\ \A d \in deltas :
               \E i \in DOMAIN view :
                   /\ view[i][1] = convert_to_frequency(d)
                   /\ view[i][2] = Cardinality({ k \in DOMAIN entries :
                          FireDelta(ReplaceQuestionMark(entries[k].cron)) = d })
        /\ SumOfCounts(view) = Len(entries)

(* C16: the two views of the frequencies hold the same phrase-to-count      *)
(* pairs, one for every distinct delta; by_freq is ordered by the delta in  *)
(* seconds, strictly descending, by_count by the count, not increasing; the *)
(* counts of each view add up to the number of entries with a cron field.   *)
C16_TwoViewsOfOneTally ==
    pc = "write_frequencies" =>
        LET by_freq == stats.diffs.by_freq
            by_count == stats.diffs.by_count
        IN  /\ IsViewOfTally(by_freq, crons)
            /\ IsViewOfTally(by_count, crons)
            /\ { by_freq[i] : i \in DOMAIN by_freq } = { by_count[i] : i \in DOMAIN by_count }
            /\ \A i, j \in DOMAIN by_freq :
                   i < j => SecondsOf(ParsePhrase(by_freq[i][1]))
                                > SecondsOf(ParsePhrase(by_freq[j][1]))
            /\ \A i, j \in DOMAIN by_count : i < j => by_count[i][2] >= by_count[j][2]

(* Two daily entries and a weekly one: the views differ in their order. *)
C16_Witness ==
    /\ pc = "write_frequencies"
    /\ stats.diffs.by_freq = << <<convert_to_frequency(604800), 1>>,
                                <<convert_to_frequency(86400), 2>> >>
    /\ stats.diffs.by_count = << <<convert_to_frequency(86400), 2>>,
                                 <<convert_to_frequency(604800), 1>> >>

(* The number of entries whose description contains "every <key>": the sum  *)
(* of the counts of the descriptions that contain it.                       *)
RECURSIVE OccurrencesOf(_, _)
OccurrencesOf(key, descriptions) ==
    IF descriptions = <<>> THEN 0
    ELSE (IF ContainsEvery(Head(descriptions)[1], key) THEN Head(descriptions)[2] ELSE 0)
         + OccurrencesOf(key, Tail(descriptions))

(* C17: the count of a label in the day-of-week statistic is the number of  *)
(* entries whose description contains the label: every description that     *)
(* contains it adds its own count; a label no description contains is not   *)
(* in the statistic.                                                        *)
C17_DayOfWeekCountsEntries ==
    pc = "write_day_of_week" =>
        \A k \in DOMAIN DayKeys :
            LET label == <<"every", DayKeys[k]>>
                n == OccurrencesOf(DayKeys[k], stats.descriptions)
            IN  IF n = 0
                THEN ~ODictHas(stats.day_of_week, label)
                ELSE /\ ODictHas(stats.day_of_week, label)
                     /\ ODictGet(stats.day_of_week, label) = n

====
